---- MODULE Spec2Model ----
(***************************************************************************)
(* Model of the periodic-logging kernel module test_module.c: the module   *)
(* state, the timer callback, the work handler, the file writer and the    *)
(* load / unload control path, as three interleaved execution contexts.    *)
(***************************************************************************)
EXTENDS Integers, Sequences, FiniteSets, TLC

(* ---------------- bounds of the model ---------------- *)

\* number of timer expirations explored
MaxFires == 2
\* width of write_counter in the model (atomic_t is 32 bits wide)
CounterBits == 1
\* number of runtime writes to the two module parameters explored
MaxReconfig == 2
\* number of work items pending on the queue when a further expiration is
\* explored
MaxPending == 2
\* number of failing allocations, formattings and file operations explored
\* after a successful load
MaxFaults == 1
\* number of CPUs whose worker pools are explored
NumCpus == 2
\* number of invocations of test_module_exit explored
MaxExitCalls == 2
\* number of lines in the file up to which calls of write_to_file on its
\* own are explored
MaxLines == 2

(* ---------------- program constants ---------------- *)

PATH_MAX == 4096
MAX_PATH_LEN == PATH_MAX - 1
MAX_PERIOD == 3600
MIN_PERIOD == 1
EINVAL == 22
ENOMEM == 12
EIO == 5
ENOENT == 2

\* the null char pointer (a path is otherwise modelled by its length)
NULL == -1

CounterMod == 2 ^ CounterBits

\* timer ticks per second of the kernel build
HZ == 1000
MsPerTick == 1000 \div HZ

\* a period whose count of milliseconds does not fit 31 bits
OverflowPeriod == 2147484

\* values the charp parameter takes: null, "", the shortest path, the longest
\* valid path, a path one character too long
FilenameValues == {NULL, 0, 1, MAX_PATH_LEN, MAX_PATH_LEN + 1}
\* values the uint parameter takes
PeriodValues == {0, MIN_PERIOD, MAX_PERIOD, MAX_PERIOD + 1}

\* the parameter pairs a load is tried with: every pair with an invalid
\* value, and the valid pairs at the ends of both ranges
LoadConfigs ==
    {c \in FilenameValues \X PeriodValues :
        \/ c[1] \in {NULL, 0, MAX_PATH_LEN + 1}
        \/ c[2] \in {0, MAX_PERIOD + 1}
        \/ c = <<1, MAX_PERIOD>>
        \/ c = <<MAX_PATH_LEN, MIN_PERIOD>>}

Kinds == {"w", "message", "filepath"}

\* the CPUs a timer callback may run on; alloc_workqueue without WQ_UNBOUND
\* creates a queue bound to per-CPU worker pools, and its max_active of 1
\* limits the items in execution per CPU
CPUs == 0 .. (NumCpus - 1)

(* ---------------- pure functions ---------------- *)

Min(a, b) == IF a < b THEN a ELSE b

\* strnlen(s, n) of a string of length s
strnlen(s, n) == Min(s, n)

\* is_valid_path without the len == 0 test of line 57
is_valid_path_empty_ok(path) ==
    IF path = NULL THEN FALSE
    ELSE LET len == strnlen(path, MAX_PATH_LEN + 1)
         IN  IF len > MAX_PATH_LEN THEN FALSE ELSE TRUE

is_valid_path(path) ==
    IF path = NULL THEN FALSE
    ELSE LET len == strnlen(path, MAX_PATH_LEN + 1)
         IN  IF len = 0 \/ len > MAX_PATH_LEN THEN FALSE ELSE TRUE

HelloLine(n) == [text |-> "Hello", n |-> n, full |-> TRUE]
UnloadedLine == [text |-> "Unloaded", n |-> 0, full |-> TRUE]
EmptyMessage == [text |-> "", n |-> 0, full |-> TRUE]
NoMessage == [text |-> "NULL", n |-> 0, full |-> TRUE]

strlen_is_zero(message) == message.text = ""

\* outcomes of the environment calls inside write_to_file
IoOutcomes == {"ok", "kstrdup_fail", "open_fail", "write_err", "short"}

\* write_to_file with a short write reported as success
write_to_file_short_ok(message, filepath, f, io) ==
    IF message = NoMessage \/ ~is_valid_path(filepath)
    THEN [ret |-> -EINVAL, file |-> f, opened |-> 0, closed |-> 0, writes |-> 0]
    ELSE IF strlen_is_zero(message)
    THEN [ret |-> 0, file |-> f, opened |-> 0, closed |-> 0, writes |-> 0]
    ELSE IF io = "kstrdup_fail"
    THEN [ret |-> -ENOMEM, file |-> f, opened |-> 0, closed |-> 0, writes |-> 0]
    ELSE IF io = "open_fail"
    THEN [ret |-> -ENOENT, file |-> f, opened |-> 0, closed |-> 0, writes |-> 0]
    ELSE IF io = "write_err"
    THEN [ret |-> -EIO, file |-> f, opened |-> 1, closed |-> 1, writes |-> 1]
    ELSE IF io = "short"
    THEN [ret |-> 0,
          file |-> Append(f, [message EXCEPT !.full = FALSE]),
          opened |-> 1, closed |-> 1, writes |-> 1]
    ELSE [ret |-> 0, file |-> Append(f, message),
          opened |-> 1, closed |-> 1, writes |-> 1]

\* write_to_file without the path check of lines 78-81
write_to_file_any_path(message, filepath, f, io) ==
    IF message = NoMessage
    THEN [ret |-> -EINVAL, file |-> f, opened |-> 0, closed |-> 0, writes |-> 0]
    ELSE IF strlen_is_zero(message)
    THEN [ret |-> 0, file |-> f, opened |-> 0, closed |-> 0, writes |-> 0]
    ELSE IF io = "kstrdup_fail"
    THEN [ret |-> -ENOMEM, file |-> f, opened |-> 0, closed |-> 0, writes |-> 0]
    ELSE IF io = "open_fail"
    THEN [ret |-> -ENOENT, file |-> f, opened |-> 0, closed |-> 0, writes |-> 0]
    ELSE IF io = "write_err"
    THEN [ret |-> -EIO, file |-> f, opened |-> 1, closed |-> 1, writes |-> 1]
    ELSE IF io = "short"
    THEN [ret |-> -EIO,
          file |-> Append(f, [message EXCEPT !.full = FALSE]),
          opened |-> 1, closed |-> 1, writes |-> 1]
    ELSE [ret |-> 0, file |-> Append(f, message),
          opened |-> 1, closed |-> 1, writes |-> 1]

\* write_to_file returning from a failed write without filp_close
write_to_file_no_close(message, filepath, f, io) ==
    IF message = NoMessage
    THEN [ret |-> -EINVAL, file |-> f, opened |-> 0, closed |-> 0, writes |-> 0]
    ELSE IF ~is_valid_path(filepath)
    THEN [ret |-> -EINVAL, file |-> f, opened |-> 0, closed |-> 0, writes |-> 0]
    ELSE IF strlen_is_zero(message)
    THEN [ret |-> 0, file |-> f, opened |-> 0, closed |-> 0, writes |-> 0]
    ELSE IF io = "kstrdup_fail"
    THEN [ret |-> -ENOMEM, file |-> f, opened |-> 0, closed |-> 0, writes |-> 0]
    ELSE IF io = "open_fail"
    THEN [ret |-> -ENOENT, file |-> f, opened |-> 0, closed |-> 0, writes |-> 0]
    ELSE IF io = "write_err"
    THEN [ret |-> -EIO, file |-> f, opened |-> 1, closed |-> 0, writes |-> 1]
    ELSE IF io = "short"
    THEN [ret |-> -EIO,
          file |-> Append(f, [message EXCEPT !.full = FALSE]),
          opened |-> 1, closed |-> 0, writes |-> 1]
    ELSE [ret |-> 0, file |-> Append(f, message),
          opened |-> 1, closed |-> 1, writes |-> 1]

\* write_to_file(message, filepath) on file content f under outcome io:
\* the return value, the new content and the handle / write bookkeeping
write_to_file(message, filepath, f, io) ==
    IF message = NoMessage
    THEN [ret |-> -EINVAL, file |-> f, opened |-> 0, closed |-> 0, writes |-> 0]
    ELSE IF ~is_valid_path(filepath)
    THEN [ret |-> -EINVAL, file |-> f, opened |-> 0, closed |-> 0, writes |-> 0]
    ELSE IF strlen_is_zero(message)
    THEN [ret |-> 0, file |-> f, opened |-> 0, closed |-> 0, writes |-> 0]
    ELSE IF io = "kstrdup_fail"
    THEN [ret |-> -ENOMEM, file |-> f, opened |-> 0, closed |-> 0, writes |-> 0]
    ELSE IF io = "open_fail"
    THEN [ret |-> -ENOENT, file |-> f, opened |-> 0, closed |-> 0, writes |-> 0]
    ELSE IF io = "write_err"
    THEN [ret |-> -EIO, file |-> f, opened |-> 1, closed |-> 1, writes |-> 1]
    ELSE IF io = "short"
    THEN [ret |-> -EIO,
          file |-> Append(f, [message EXCEPT !.full = FALSE]),
          opened |-> 1, closed |-> 1, writes |-> 1]
    ELSE [ret |-> 0, file |-> Append(f, message),
          opened |-> 1, closed |-> 1, writes |-> 1]

\* a timer delay: a number of ticks, or MAX_JIFFY_OFFSET
Ticks(n) == [forever |-> FALSE, ticks |-> n]
MAX_JIFFY_OFFSET == [forever |-> TRUE, ticks |-> 0]
NoDelay == Ticks(0)

\* the 16-bit limb of the 32-bit arithmetic below
Limb == 65536

\* period * 1000 as unsigned int (32 bits wide), in two limbs
PeriodMs(period) ==
    LET lo == (period % Limb) * 1000
        hi == (period \div Limb) * 1000 + (lo \div Limb)
    IN  [hi |-> hi % Limb, lo |-> lo % Limb]

\* msecs_to_jiffies(m): a count that is negative as an int is an infinite
\* timeout, any other is rounded up to whole ticks
msecs_to_jiffies(m) ==
    IF m.hi >= Limb \div 2
    THEN MAX_JIFFY_OFFSET
    ELSE Ticks((m.hi * Limb + m.lo + MsPerTick - 1) \div MsPerTick)

\* lines 234-236 and 278-280: the delay the timer is armed with
rearm_delay(period) ==
    LET delay == msecs_to_jiffies(PeriodMs(period))
    IN  IF delay = Ticks(0) THEN Ticks(1) ELSE delay

(* ---------------- state ---------------- *)

VARIABLES
    filename,        \* module parameter: NULL or the length of the path
    timer_period,    \* module parameter
    reconfigs,       \* runtime parameter writes performed so far
    faults,          \* failures injected so far
    lifecycle,       \* "unloaded" | "init_activate" | "init_arm" | "loaded" | "removed"
    init_ret,        \* last return value of test_module_init
    module_state,    \* the global pointer: "NULL" | "ptr"
    alloc,           \* memory of *module_state: "none" | "live" | "freed"
    module_active,   \* module_state->module_active
    write_counter,   \* module_state->write_counter
    wq,              \* module_state->wq: "NULL" | "wq"
    wqStatus,        \* the workqueue: "none" | "alive" | "destroying" | "destroyed"
    timer,           \* write_timer: "inactive" | "pending"
    nfires,          \* timer expirations so far
    cb_pc,           \* position of timer_callback
    cb_counter,      \* its local counter
    cb_id,           \* identity of the work item of the running cycle
    cb_bufs,         \* buffers the running cycle owns
    cb_path,         \* the filepath copy it made
    worklist,        \* work items pending on the queue, in submission order
    worker,          \* per CPU: the item write_work_handler runs on, or Idle
    flushWait,       \* ids of the items flush_workqueue still waits for
    live,            \* buffers allocated and not released
    badfree,         \* buffers passed to kfree while not allocated
    file,            \* lines of the log file, in append order
    lastWrite,       \* bookkeeping of the last write_to_file call
    expires,         \* delay the pending timer was armed with
    ex_pc,           \* position of test_module_exit
    exit_calls       \* invocations of test_module_exit so far

vars == <<filename, timer_period, reconfigs, faults, lifecycle, init_ret, module_state,
          alloc, module_active, write_counter, wq, wqStatus, timer, nfires,
          cb_pc, cb_counter, cb_id, cb_bufs, cb_path, worklist, worker,
          flushWait, live, badfree, file, lastWrite, expires, ex_pc,
          exit_calls>>

paramVars == <<filename, timer_period, reconfigs>>
envVars == <<paramVars, faults>>
stateVars == <<module_state, alloc, module_active, write_counter, wq, wqStatus>>
cbVars == <<cb_pc, cb_counter, cb_id, cb_bufs, cb_path>>
queueVars == <<worklist, worker, flushWait>>
heapVars == <<live, badfree>>
fileVars == <<file, lastWrite>>
exitVars == <<ex_pc, exit_calls>>

Idle == [id |-> 0, message |-> NoMessage, filepath |-> NULL, cpu |-> 0]
NoWrite ==
    [message |-> NoMessage, filepath |-> NULL,
     ret |-> 0, opened |-> 0, closed |-> 0, writes |-> 0]

\* the arguments of a call of write_to_file, what it returned and what it
\* did to handles
CallRecord(message, filepath, r) ==
    [message |-> message, filepath |-> filepath,
     ret |-> r.ret, opened |-> r.opened, closed |-> r.closed,
     writes |-> r.writes]

Init ==
    /\ \E c \in LoadConfigs :
          /\ filename = c[1]
          /\ timer_period = c[2]
    /\ reconfigs = 0
    /\ faults = 0
    /\ lifecycle = "unloaded"
    /\ init_ret = 0
    /\ module_state = "NULL"
    /\ alloc = "none"
    /\ module_active = FALSE
    /\ write_counter = 0
    /\ wq = "NULL"
    /\ wqStatus = "none"
    /\ timer = "inactive"
    /\ expires = NoDelay
    /\ nfires = 0
    /\ cb_pc = "idle"
    /\ cb_counter = 0
    /\ cb_id = 0
    /\ cb_bufs = {}
    /\ cb_path = NULL
    /\ worklist = <<>>
    /\ worker = [c \in CPUs |-> Idle]
    /\ flushWait = {}
    /\ live = {}
    /\ badfree = {}
    /\ file = <<>>
    /\ lastWrite = NoWrite
    /\ ex_pc = "idle"
    /\ exit_calls = 0

(* ---------------- parameter writes (sysfs, mode 0644) ---------------- *)

\* the parameter files exist while the module is loaded

\* values written to the charp parameter at run time: "" and a valid path
\* (a write makes the parameter point to a string of at most 1024
\* characters, never null)
FilenameWrites == {0, 1}
\* values written to the uint parameter at run time
PeriodWrites == {0, MIN_PERIOD, OverflowPeriod}

SetFilename ==
    /\ UNCHANGED expires
    /\ lifecycle = "loaded"
    /\ reconfigs < MaxReconfig
    /\ \E f \in FilenameWrites :
          /\ f # filename
          /\ filename' = f
    /\ reconfigs' = reconfigs + 1
    /\ UNCHANGED <<timer_period, faults, lifecycle, init_ret, timer, nfires>>
    /\ UNCHANGED <<stateVars, cbVars, queueVars, heapVars, fileVars, exitVars>>

SetPeriod ==
    /\ UNCHANGED expires
    /\ lifecycle = "loaded"
    /\ reconfigs < MaxReconfig
    /\ \E p \in PeriodWrites :
          /\ p # timer_period
          /\ timer_period' = p
    /\ reconfigs' = reconfigs + 1
    /\ UNCHANGED <<filename, faults, lifecycle, init_ret, timer, nfires>>
    /\ UNCHANGED <<stateVars, cbVars, queueVars, heapVars, fileVars, exitVars>>

(* ---------------- test_module_init ---------------- *)

InitOutcomes == {"ok", "kmalloc_fail", "alloc_workqueue_fail"}

\* lines 243-280: validation, allocation of the state, creation of the
\* queue, timer_setup and the computation of the first delay
InitBegin ==
    /\ UNCHANGED expires
    /\ lifecycle = "unloaded"
    /\ \E out \in InitOutcomes :
        IF filename = NULL \/ ~is_valid_path(filename)
        THEN /\ out = "ok"
             /\ init_ret' = -EINVAL
             /\ UNCHANGED <<lifecycle, stateVars>>
        ELSE IF timer_period < MIN_PERIOD \/ timer_period > MAX_PERIOD
        THEN /\ out = "ok"
             /\ init_ret' = -EINVAL
             /\ UNCHANGED <<lifecycle, stateVars>>
        ELSE IF out = "kmalloc_fail"
        THEN /\ init_ret' = -ENOMEM
             /\ UNCHANGED <<lifecycle, stateVars>>
        ELSE IF out = "alloc_workqueue_fail"
        THEN \* kfree(module_state) without clearing the global pointer
             /\ init_ret' = -ENOMEM
             /\ module_state' = "ptr"
             /\ alloc' = "freed"
             /\ write_counter' = 0
             /\ module_active' = FALSE
             /\ wq' = "NULL"
             /\ UNCHANGED <<lifecycle, wqStatus>>
        ELSE /\ module_state' = "ptr"
             /\ alloc' = "live"
             /\ write_counter' = 0
             /\ module_active' = FALSE
             /\ wq' = "wq"
             /\ wqStatus' = "alive"
             /\ lifecycle' = "init_activate"
             /\ UNCHANGED init_ret
    /\ UNCHANGED <<envVars, timer, nfires>>
    /\ UNCHANGED <<cbVars, queueVars, heapVars, fileVars, exitVars>>

\* line 282
InitActivate ==
    /\ UNCHANGED expires
    /\ lifecycle = "init_activate"
    /\ module_active' = TRUE
    /\ lifecycle' = "init_arm"
    /\ UNCHANGED <<module_state, alloc, write_counter, wq, wqStatus>>
    /\ UNCHANGED <<envVars, init_ret, timer, nfires>>
    /\ UNCHANGED <<cbVars, queueVars, heapVars, fileVars, exitVars>>

\* lines 284-287: the first arming of the timer, and the return of 0
InitArm ==
    /\ lifecycle = "init_arm"
    /\ timer' = "pending"
    /\ expires' = rearm_delay(timer_period)
    /\ init_ret' = 0
    /\ lifecycle' = "loaded"
    /\ UNCHANGED <<envVars, nfires>>
    /\ UNCHANGED <<stateVars, cbVars, queueVars, heapVars, fileVars, exitVars>>

test_module_init ==
    \/ InitBegin
    \/ InitActivate
    \/ InitArm

(* ---------------- failures of the environment ---------------- *)

\* an environment call fails (failed = TRUE) or succeeds
Injected(failed) ==
    IF failed
    THEN faults < MaxFaults /\ faults' = faults + 1
    ELSE faults' = faults

(* ---------------- reads of the module state ---------------- *)

\* A field of *module_state read by the timer callback holds its value while
\* the memory is allocated; after kfree the read returns whatever the
\* memory holds.
ActiveReads == IF alloc = "live" THEN {module_active} ELSE BOOLEAN
WqReads == IF alloc = "live" THEN {wq} ELSE {"NULL", "wq"}
CounterReads == IF alloc = "live" THEN {write_counter} ELSE 0 .. (CounterMod - 1)

(* ---------------- cycle buffers ---------------- *)

Bufs(id, kinds) == {<<id, k>> : k \in kinds}

LiveAfter(allocs, frees) == (live \cup allocs) \ frees
BadAfter(allocs, frees) == badfree \cup (frees \ (live \cup allocs))

(* ---------------- timer_callback ---------------- *)

CbReturn ==
    /\ cb_pc' = "idle"
    /\ cb_counter' = 0
    /\ cb_id' = 0
    /\ cb_bufs' = {}
    /\ cb_path' = NULL

\* the timer expires: the timer core detaches it and runs the callback
TimerFire ==
    /\ expires' = NoDelay
    /\ timer = "pending"
    /\ cb_pc = "idle"
    /\ nfires < MaxFires
    /\ Len(worklist) < MaxPending
    /\ timer' = "inactive"
    /\ nfires' = nfires + 1
    /\ cb_pc' = "check_state"
    /\ cb_id' = nfires + 1
    /\ UNCHANGED <<cb_counter, cb_bufs, cb_path>>
    /\ UNCHANGED <<envVars, lifecycle, init_ret>>
    /\ UNCHANGED <<stateVars, queueVars, heapVars, fileVars, exitVars>>

\* line 157: the identity check against the global pointer
CbCheckState ==
    /\ UNCHANGED expires
    /\ cb_pc = "check_state"
    /\ IF module_state = "NULL"
       THEN CbReturn
       ELSE /\ cb_pc' = "check_active"
            /\ UNCHANGED <<cb_counter, cb_id, cb_bufs, cb_path>>
    /\ UNCHANGED <<envVars, lifecycle, init_ret, timer, nfires>>
    /\ UNCHANGED <<stateVars, queueVars, heapVars, fileVars, exitVars>>

\* line 162
CbCheckActive ==
    /\ UNCHANGED expires
    /\ cb_pc = "check_active"
    /\ \E a \in ActiveReads :
          IF ~a
          THEN CbReturn
          ELSE /\ cb_pc' = "increment"
               /\ UNCHANGED <<cb_counter, cb_id, cb_bufs, cb_path>>
    /\ UNCHANGED <<envVars, lifecycle, init_ret, timer, nfires>>
    /\ UNCHANGED <<stateVars, queueVars, heapVars, fileVars, exitVars>>

\* an increment that returns the value before the increment
atomic_inc_return_old(c) == c

atomic_inc_return(c) == (c + 1) % CounterMod

\* line 167
CbIncrement ==
    /\ UNCHANGED expires
    /\ cb_pc = "increment"
    /\ \E c \in CounterReads :
          /\ cb_counter' = atomic_inc_return(c)
          /\ write_counter' = IF alloc = "live" THEN atomic_inc_return(c)
                              ELSE write_counter
    /\ cb_pc' = "prepare"
    /\ UNCHANGED <<cb_id, cb_bufs, cb_path>>
    /\ UNCHANGED <<module_state, alloc, module_active, wq, wqStatus>>
    /\ UNCHANGED <<envVars, lifecycle, init_ret, timer, nfires>>
    /\ UNCHANGED <<queueVars, heapVars, fileVars, exitVars>>

\* lines 169-172 without the correction of a wrapped counter
FixedCounter_uncorrected(counter) == counter

\* the value the callback goes on with after lines 169-172
FixedCounter(counter) == IF counter = 0 THEN 1 ELSE counter

\* how lines 174-215 can end
PrepareOutcomes ==
    {"ok", "snprintf_len_fail", "kmalloc_w_fail", "kmalloc_message_fail",
     "filename_null", "kstrdup_fail", "snprintf_fail"}

\* the outcomes possible with the filename parameter as it is
PrepareEnabled(out) ==
    IF filename = NULL
    THEN out \in {"snprintf_len_fail", "kmalloc_w_fail",
                  "kmalloc_message_fail", "filename_null"}
    ELSE out # "filename_null"

\* buffers allocated before the cycle ends with outcome out
PrepareAllocs(out) ==
    CASE out = "snprintf_len_fail" -> {}
      [] out = "kmalloc_w_fail" -> {}
      [] out = "kmalloc_message_fail" -> {"w"}
      [] out = "filename_null" -> {"w", "message"}
      [] out = "kstrdup_fail" -> {"w", "message"}
      [] out = "snprintf_fail" -> {"w", "message", "filepath"}
      [] out = "ok" -> {"w", "message", "filepath"}

\* buffers the error branch of outcome out passes to kfree
PrepareFrees(out) ==
    CASE out = "snprintf_len_fail" -> {}
      [] out = "kmalloc_w_fail" -> {}
      [] out = "kmalloc_message_fail" -> {"w"}
      [] out = "filename_null" -> {"message", "w"}
      [] out = "kstrdup_fail" -> {"message", "w"}
      [] out = "snprintf_fail" -> {"message", "filepath", "w"}
      [] out = "ok" -> {}

\* a failed allocation of the work item returns instead of rescheduling
PrepareNext_return(out) ==
    IF out = "ok" THEN "check_submit"
    ELSE IF out = "kmalloc_w_fail" THEN "idle"
    ELSE "reschedule"

\* where the callback goes on after outcome out: to the submission, or by
\* goto to the reschedule label
PrepareNext(out) == IF out = "ok" THEN "check_submit" ELSE "reschedule"

\* lines 169-219: correct a wrapped counter, format, allocate the three
\* buffers, fill the work item
CbPrepare ==
    /\ UNCHANGED expires
    /\ cb_pc = "prepare"
    /\ cb_counter' = FixedCounter(cb_counter)
    /\ write_counter' = IF cb_counter = 0 /\ alloc = "live" THEN 1
                        ELSE write_counter
    /\ \E out \in PrepareOutcomes :
          /\ PrepareEnabled(out)
          /\ Injected(out \notin {"ok", "filename_null"})
          /\ LET allocs == Bufs(cb_id, PrepareAllocs(out))
                 frees == Bufs(cb_id, PrepareFrees(out))
             IN  /\ live' = LiveAfter(allocs, frees)
                 /\ badfree' = BadAfter(allocs, frees)
          /\ cb_bufs' = PrepareAllocs(out) \ PrepareFrees(out)
          /\ cb_pc' = PrepareNext(out)
          /\ cb_path' = IF out = "ok" THEN filename ELSE NULL
    /\ UNCHANGED cb_id
    /\ UNCHANGED <<module_state, alloc, module_active, wq, wqStatus>>
    /\ UNCHANGED <<paramVars, lifecycle, init_ret, timer, nfires>>
    /\ UNCHANGED <<queueVars, fileVars, exitVars>>

\* the condition of line 221
MaySubmit(w, a) == w # "NULL" /\ a

\* line 221 and its else branch, lines 223-228
CbCheckSubmit ==
    /\ UNCHANGED expires
    /\ cb_pc = "check_submit"
    /\ \E w \in WqReads, a \in ActiveReads :
          IF MaySubmit(w, a)
          THEN /\ cb_pc' = "queue_work"
               /\ UNCHANGED <<cb_bufs, cb_path, heapVars>>
          ELSE /\ cb_pc' = "reschedule"
               /\ live' = LiveAfter({}, Bufs(cb_id, cb_bufs))
               /\ badfree' = BadAfter({}, Bufs(cb_id, cb_bufs))
               /\ cb_bufs' = {}
               /\ cb_path' = NULL
    /\ UNCHANGED <<cb_counter, cb_id>>
    /\ UNCHANGED <<envVars, lifecycle, init_ret, timer, nfires>>
    /\ UNCHANGED <<stateVars, queueVars, fileVars, exitVars>>

\* the work item of lines 217-219, on the pool of the CPU that queues it
WorkItem(id, counter, path, cpu) ==
    [id |-> id, message |-> HelloLine(counter), filepath |-> path,
     cpu |-> cpu]

\* what queue_work does with the item, by the state of the workqueue:
\* a live queue takes it; a queue being destroyed rejects it; on a queue
\* already destroyed the call works on released memory and the item is
\* either lost or lands on the worker pool's list
QueueWorkResults(list, item) ==
    CASE wqStatus = "alive" -> {Append(list, item)}
      [] wqStatus = "destroying" -> {list}
      [] OTHER -> {list, Append(list, item)}

\* line 222
CbQueueWork ==
    /\ UNCHANGED expires
    /\ cb_pc = "queue_work"
    /\ \E cpu \in CPUs :
          worklist' \in QueueWorkResults(worklist,
                          WorkItem(cb_id, cb_counter, cb_path, cpu))
    /\ cb_bufs' = {}
    /\ cb_path' = NULL
    /\ cb_pc' = "reschedule"
    /\ UNCHANGED <<cb_counter, cb_id, worker, flushWait>>
    /\ UNCHANGED <<envVars, lifecycle, init_ret, timer, nfires>>
    /\ UNCHANGED <<stateVars, heapVars, fileVars, exitVars>>

\* the condition of line 233 without the test of the period
MayRearm_any_period(a, period) == a

\* the condition of line 233
MayRearm(a, period) == a /\ period > 0

\* line 233
CbCheckRearm ==
    /\ UNCHANGED expires
    /\ cb_pc = "reschedule"
    /\ \E a \in ActiveReads :
          IF MayRearm(a, timer_period)
          THEN /\ cb_pc' = "mod_timer"
               /\ UNCHANGED <<cb_counter, cb_id, cb_bufs, cb_path>>
          ELSE CbReturn
    /\ UNCHANGED <<envVars, lifecycle, init_ret, timer, nfires>>
    /\ UNCHANGED <<stateVars, queueVars, heapVars, fileVars, exitVars>>

\* lines 234-237
CbModTimer ==
    /\ cb_pc = "mod_timer"
    /\ timer' = "pending"
    /\ expires' = rearm_delay(timer_period)
    /\ CbReturn
    /\ UNCHANGED <<envVars, lifecycle, init_ret, nfires>>
    /\ UNCHANGED <<stateVars, queueVars, heapVars, fileVars, exitVars>>

(* ---------------- the queue worker ---------------- *)

\* positions of the items pending on the pool of one CPU
PendingOn(c) == {i \in 1 .. Len(worklist) : worklist[i].cpu = c}

\* the first pending item of one CPU's pool
FirstOn(c) == CHOOSE i \in PendingOn(c) : \A j \in PendingOn(c) : i <= j

Remove(list, i) == SubSeq(list, 1, i - 1) \o SubSeq(list, i + 1, Len(list))

WorkersIdle == \A c \in CPUs : worker[c] = Idle

Running == {worker[c] : c \in CPUs} \ {Idle}

\* the pool of one CPU takes its oldest pending item once that CPU runs no
\* item of the queue
WorkStart ==
    /\ UNCHANGED expires
    /\ \E c \in CPUs :
          /\ PendingOn(c) # {}
          /\ worker[c] = Idle
          /\ worker' = [worker EXCEPT ![c] = worklist[FirstOn(c)]]
          /\ worklist' = Remove(worklist, FirstOn(c))
    /\ UNCHANGED flushWait
    /\ UNCHANGED <<envVars, lifecycle, init_ret, timer, nfires>>
    /\ UNCHANGED <<stateVars, cbVars, heapVars, fileVars, exitVars>>

\* buffers write_work_handler releases at its out label
HandlerFrees(w) == Bufs(w.id, {"message", "filepath", "w"})

\* lines 124-143
write_work_handler ==
    /\ UNCHANGED expires
    /\ \E c \in CPUs :
          /\ worker[c] # Idle
          /\ \E io \in IoOutcomes :
                /\ Injected(io # "ok")
                /\ IF worker[c].message = NoMessage
                         \/ worker[c].filepath = NULL
                   THEN /\ io = "ok"
                        /\ UNCHANGED fileVars
                   ELSE LET r == write_to_file(worker[c].message,
                                               worker[c].filepath, file, io)
                        IN  /\ file' = r.file
                            /\ lastWrite' = CallRecord(worker[c].message,
                                                       worker[c].filepath, r)
          /\ live' = LiveAfter({}, HandlerFrees(worker[c]))
          /\ badfree' = BadAfter({}, HandlerFrees(worker[c]))
          /\ worker' = [worker EXCEPT ![c] = Idle]
          /\ flushWait' = flushWait \ {worker[c].id}
    /\ UNCHANGED worklist
    /\ UNCHANGED <<paramVars, lifecycle, init_ret, timer, nfires>>
    /\ UNCHANGED <<stateVars, cbVars, exitVars>>

(* ---------------- test_module_exit ---------------- *)

\* test_module_exit without the null check of lines 296-299
ExitEnter_unchecked ==
    /\ UNCHANGED expires
    /\ ex_pc \in {"idle", "done"}
    /\ exit_calls < MaxExitCalls
    /\ \/ lifecycle = "loaded"
       \/ lifecycle \in {"unloaded", "removed"} /\ module_state = "NULL"
    /\ exit_calls' = exit_calls + 1
    /\ ex_pc' = "deactivate"
    /\ UNCHANGED <<envVars, lifecycle, init_ret, timer, nfires>>
    /\ UNCHANGED <<stateVars, cbVars, queueVars, heapVars, fileVars>>

\* lines 296-301: the null check and the read of the counter. The kernel
\* runs the exit function of a loaded module; the other invocations are
\* those the null check is written for, after which the module is gone.
ExitEnter ==
    /\ UNCHANGED expires
    /\ ex_pc \in {"idle", "done"}
    /\ exit_calls < MaxExitCalls
    /\ \/ lifecycle = "loaded"
       \/ lifecycle \in {"unloaded", "removed"} /\ module_state = "NULL"
    /\ exit_calls' = exit_calls + 1
    /\ IF module_state = "NULL"
       THEN /\ lifecycle' = "removed"
            /\ UNCHANGED ex_pc
       ELSE /\ ex_pc' = "deactivate"
            /\ UNCHANGED lifecycle
    /\ UNCHANGED <<envVars, init_ret, timer, nfires>>
    /\ UNCHANGED <<stateVars, cbVars, queueVars, heapVars, fileVars>>

\* line 303 left out: teardown goes on with the flag still set
ExitDeactivate_skipped ==
    /\ UNCHANGED <<expires, exit_calls>>
    /\ ex_pc = "deactivate"
    /\ ex_pc' = "timer_pending"
    /\ UNCHANGED <<envVars, lifecycle, init_ret, timer, nfires>>
    /\ UNCHANGED <<stateVars, cbVars, queueVars, heapVars, fileVars>>

\* line 303
ExitDeactivate ==
    /\ UNCHANGED <<expires, exit_calls>>
    /\ ex_pc = "deactivate"
    /\ module_active' = FALSE
    /\ ex_pc' = "timer_pending"
    /\ UNCHANGED <<module_state, alloc, write_counter, wq, wqStatus>>
    /\ UNCHANGED <<envVars, lifecycle, init_ret, timer, nfires>>
    /\ UNCHANGED <<cbVars, queueVars, heapVars, fileVars>>

\* whether line 305 goes on to timer_delete_sync
NeedsDeleteSync(t) == t = "pending"

\* line 305
ExitTimerPending ==
    /\ UNCHANGED <<expires, exit_calls>>
    /\ ex_pc = "timer_pending"
    /\ ex_pc' = IF NeedsDeleteSync(timer) THEN "delete_sync" ELSE "flush"
    /\ UNCHANGED <<envVars, lifecycle, init_ret, timer, nfires>>
    /\ UNCHANGED <<stateVars, cbVars, queueVars, heapVars, fileVars>>

\* line 306 as a wait for the timer to come to rest by itself
ExitDeleteSync_spin ==
    /\ UNCHANGED <<expires, exit_calls>>
    /\ ex_pc = "delete_sync"
    /\ cb_pc = "idle"
    /\ timer = "inactive"
    /\ ex_pc' = "flush"
    /\ UNCHANGED <<envVars, lifecycle, init_ret, timer, nfires>>
    /\ UNCHANGED <<stateVars, cbVars, queueVars, heapVars, fileVars>>

\* line 306: timer_delete_sync waits for a running callback to return and
\* removes the timer if it is pending
ExitDeleteSync ==
    /\ UNCHANGED exit_calls
    /\ expires' = NoDelay
    /\ ex_pc = "delete_sync"
    /\ cb_pc = "idle"
    /\ timer' = "inactive"
    /\ ex_pc' = "flush"
    /\ UNCHANGED <<envVars, lifecycle, init_ret, nfires>>
    /\ UNCHANGED <<stateVars, cbVars, queueVars, heapVars, fileVars>>

\* items a flush started now has to wait for
FlushTarget ==
    {worklist[i].id : i \in 1 .. Len(worklist)} \cup {w.id : w \in Running}

\* lines 309-310: flush_workqueue is entered
ExitFlushBegin ==
    /\ UNCHANGED <<expires, exit_calls>>
    /\ ex_pc = "flush"
    /\ IF wq = "NULL"
       THEN /\ ex_pc' = "final_write"
            /\ UNCHANGED flushWait
       ELSE /\ ex_pc' = "flush_wait"
            /\ flushWait' = FlushTarget
    /\ UNCHANGED <<worklist, worker>>
    /\ UNCHANGED <<envVars, lifecycle, init_ret, timer, nfires>>
    /\ UNCHANGED <<stateVars, cbVars, heapVars, fileVars>>

\* line 310: flush_workqueue returns when the items queued before it
\* have run
ExitFlushDone ==
    /\ UNCHANGED <<expires, exit_calls>>
    /\ ex_pc = "flush_wait"
    /\ flushWait = {}
    /\ ex_pc' = "destroy"
    /\ UNCHANGED <<envVars, lifecycle, init_ret, timer, nfires>>
    /\ UNCHANGED <<stateVars, cbVars, queueVars, heapVars, fileVars>>

\* line 311: destroy_workqueue marks the queue as being destroyed
ExitDestroyBegin ==
    /\ UNCHANGED <<expires, exit_calls>>
    /\ ex_pc = "destroy"
    /\ wqStatus' = "destroying"
    /\ ex_pc' = "drain"
    /\ UNCHANGED <<module_state, alloc, module_active, write_counter, wq>>
    /\ UNCHANGED <<envVars, lifecycle, init_ret, timer, nfires>>
    /\ UNCHANGED <<cbVars, queueVars, heapVars, fileVars>>

\* line 311: destroy_workqueue drains the queue and releases it
ExitDestroyEnd ==
    /\ UNCHANGED <<expires, exit_calls>>
    /\ ex_pc = "drain"
    /\ worklist = <<>>
    /\ WorkersIdle
    /\ wqStatus' = "destroyed"
    /\ ex_pc' = "clear_wq"
    /\ UNCHANGED <<module_state, alloc, module_active, write_counter, wq>>
    /\ UNCHANGED <<envVars, lifecycle, init_ret, timer, nfires>>
    /\ UNCHANGED <<cbVars, queueVars, heapVars, fileVars>>

\* line 312
ExitClearWq ==
    /\ UNCHANGED <<expires, exit_calls>>
    /\ ex_pc = "clear_wq"
    /\ wq' = "NULL"
    /\ ex_pc' = "final_write"
    /\ UNCHANGED <<module_state, alloc, module_active, write_counter, wqStatus>>
    /\ UNCHANGED <<envVars, lifecycle, init_ret, timer, nfires>>
    /\ UNCHANGED <<cbVars, queueVars, heapVars, fileVars>>

\* lines 316-318
ExitFinalWrite ==
    /\ UNCHANGED <<expires, exit_calls>>
    /\ ex_pc = "final_write"
    /\ \E io \in IoOutcomes :
          /\ Injected(io # "ok")
          /\ IF filename # NULL /\ is_valid_path(filename)
             THEN LET r == write_to_file(UnloadedLine, filename, file, io)
                  IN  /\ file' = r.file
                      /\ lastWrite' = CallRecord(UnloadedLine, filename, r)
             ELSE /\ io = "ok"
                  /\ UNCHANGED fileVars
    /\ ex_pc' = "kfree"
    /\ UNCHANGED <<paramVars, lifecycle, init_ret, timer, nfires>>
    /\ UNCHANGED <<stateVars, cbVars, queueVars, heapVars>>

\* line 320
ExitKfree ==
    /\ UNCHANGED <<expires, exit_calls>>
    /\ ex_pc = "kfree"
    /\ alloc' = "freed"
    /\ ex_pc' = "clear_ptr"
    /\ UNCHANGED <<module_state, module_active, write_counter, wq, wqStatus>>
    /\ UNCHANGED <<envVars, lifecycle, init_ret, timer, nfires>>
    /\ UNCHANGED <<cbVars, queueVars, heapVars, fileVars>>

\* lines 321-324
ExitClearPtr ==
    /\ UNCHANGED <<expires, exit_calls>>
    /\ ex_pc = "clear_ptr"
    /\ module_state' = "NULL"
    /\ ex_pc' = "done"
    /\ lifecycle' = "removed"
    /\ UNCHANGED <<alloc, module_active, write_counter, wq, wqStatus>>
    /\ UNCHANGED <<envVars, init_ret, timer, nfires>>
    /\ UNCHANGED <<cbVars, queueVars, heapVars, fileVars>>

(* ---------------- the system ---------------- *)

timer_callback ==
    \/ CbCheckState
    \/ CbCheckActive
    \/ CbIncrement
    \/ CbPrepare
    \/ CbCheckSubmit
    \/ CbQueueWork
    \/ CbCheckRearm
    \/ CbModTimer

test_module_exit ==
    \/ ExitEnter
    \/ ExitDeactivate
    \/ ExitTimerPending
    \/ ExitDeleteSync
    \/ ExitFlushBegin
    \/ ExitFlushDone
    \/ ExitDestroyBegin
    \/ ExitDestroyEnd
    \/ ExitClearWq
    \/ ExitFinalWrite
    \/ ExitKfree
    \/ ExitClearPtr

Next ==
    \/ SetFilename
    \/ SetPeriod
    \/ test_module_init
    \/ TimerFire
    \/ timer_callback
    \/ WorkStart
    \/ write_work_handler
    \/ test_module_exit

Spec == Init /\ [][Next]_vars

\* the steps of test_module_exit after its entry
ExitProgress ==
    \/ ExitDeactivate
    \/ ExitTimerPending
    \/ ExitDeleteSync
    \/ ExitFlushBegin
    \/ ExitFlushDone
    \/ ExitDestroyBegin
    \/ ExitDestroyEnd
    \/ ExitClearWq
    \/ ExitFinalWrite
    \/ ExitKfree
    \/ ExitClearPtr

\* messages write_to_file is called with: none, "", and the two lines
Messages == {NoMessage, EmptyMessage, HelloLine(1), UnloadedLine}

\* one call of write_to_file with arguments drawn from small sets
CallWriteToFile ==
    /\ UNCHANGED expires
    /\ Len(file) < MaxLines
    /\ \E message \in Messages, filepath \in FilenameValues,
          io \in IoOutcomes :
          LET r == write_to_file(message, filepath, file, io)
          IN  /\ file' = r.file
              /\ lastWrite' = CallRecord(message, filepath, r)
    /\ UNCHANGED <<envVars, lifecycle, init_ret, timer, nfires>>
    /\ UNCHANGED <<stateVars, cbVars, queueVars, heapVars, exitVars>>

\* write_to_file on its own, called again and again
WriterSpec == Init /\ [][CallWriteToFile]_vars

\* a callback that has started runs to its return, the worker pools start
\* and finish the items they hold, and the process running
\* test_module_exit is scheduled
\* teardown needs a load that succeeded: the fair runs start from one valid
\* pair of parameters
FairInit == Init /\ filename = 1 /\ timer_period = MAX_PERIOD

FairSpec ==
    /\ FairInit
    /\ [][Next]_vars
    /\ WF_vars(timer_callback)
    /\ WF_vars(WorkStart)
    /\ WF_vars(write_work_handler)
    /\ WF_vars(ExitProgress)

TypeOK ==
    /\ filename \in FilenameValues
    /\ timer_period \in PeriodValues \cup PeriodWrites
    /\ expires.ticks >= 0
    /\ module_state \in {"NULL", "ptr"}
    /\ alloc \in {"none", "live", "freed"}
    /\ module_active \in BOOLEAN
    /\ write_counter \in 0 .. (CounterMod - 1)
    /\ timer \in {"inactive", "pending"}
    /\ nfires \in 0 .. MaxFires
    /\ cb_bufs \subseteq Kinds

(* ---------------- positions of teardown ---------------- *)

\* test_module_exit has executed line 303
Deactivated == ex_pc \notin {"idle", "deactivate"}

\* the cancel-timer step (lines 305-307) has returned
AfterCancel == ex_pc \notin {"idle", "deactivate", "timer_pending", "delete_sync"}

\* flush_workqueue (line 310) has returned
AfterFlush ==
    ex_pc \in {"destroy", "drain", "clear_wq", "final_write", "kfree",
               "clear_ptr", "done"}

\* the final write (lines 316-318) has been passed
FinalWriteReturned == ex_pc \in {"kfree", "clear_ptr", "done"}

\* kfree(module_state) (line 320) has been executed by teardown
StateFreed == ex_pc \in {"clear_ptr", "done"}

\* the steps of test_module_exit in program order (lines 296-324)
ExitSteps ==
    <<"idle", "deactivate", "timer_pending", "delete_sync", "flush",
      "flush_wait", "destroy", "drain", "clear_wq", "final_write", "kfree",
      "clear_ptr", "done">>

ExitRank(pc) == CHOOSE i \in 1 .. Len(ExitSteps) : ExitSteps[i] = pc

\* steps of the callback, as transitions
QueueWorkCalled == cb_pc = "queue_work" /\ cb_pc' = "reschedule"
ModTimerCalled == cb_pc = "mod_timer" /\ cb_pc' = "idle"
PrepareDone == cb_pc = "prepare" /\ cb_pc' # "prepare"
FinalWriteDone == ex_pc = "final_write" /\ ex_pc' = "kfree"

HelloAt(i) == file[i].text = "Hello"
UnloadedAt(i) == file[i].text = "Unloaded"
CompleteUnloaded(f) == {i \in 1 .. Len(f) : f[i] = UnloadedLine}
AnyUnloaded(f) == {i \in 1 .. Len(f) : f[i].text = "Unloaded"}

(* ---------------- properties ---------------- *)

\* C1: once test_module_exit has set module_active to false, the timer
\* callback never calls queue_work and never calls mod_timer again.
C1_NoSubmitNoRearmAfterDeactivation ==
    [][Deactivated => ~(QueueWorkCalled \/ ModTimerCalled)]_vars

\* C2: after the cancel-timer step of test_module_exit has returned, no timer
\* callback is executing and the timer is not pending.
C2_CancelSynchronousAndFinal ==
    AfterCancel => (cb_pc = "idle" /\ timer = "inactive")

\* C3: the timer callback never touches the module state after teardown has
\* freed it: once kfree(module_state) has run, no callback is in progress
\* and none can start.
C3_NoUseAfterFree ==
    StateFreed => (cb_pc = "idle" /\ timer # "pending")

\* C4: from the return of flush_workqueue on, no work item is pending or
\* executing.
C4_QueueDrained ==
    AfterFlush => (worklist = <<>> /\ WorkersIdle)

\* C5 as stated: the final write of a teardown with a valid filename leaves
\* exactly one complete "Module unloaded" line in the file.
C5_AlwaysOneTerminalLine ==
    [][(FinalWriteDone /\ is_valid_path(filename))
           => Cardinality(CompleteUnloaded(file')) = 1]_vars

\* C5 amended: a teardown with a valid filename makes exactly one attempt to
\* write "Module unloaded"; when that write succeeds the line is appended
\* exactly once as the last line, when it fails no complete line is appended
\* (at most a truncated one); no other step ever adds such a line.
C5_OneBestEffortTerminalLine ==
    [][/\ (FinalWriteDone /\ is_valid_path(filename)) =>
             /\ lastWrite'.ret = 0 =>
                   /\ file' = Append(file, UnloadedLine)
                   /\ Cardinality(CompleteUnloaded(file')) = 1
             /\ lastWrite'.ret # 0 =>
                   /\ CompleteUnloaded(file') = {}
                   /\ Len(file') <= Len(file) + 1
             /\ lastWrite'.writes <= 1
       /\ ~FinalWriteDone => AnyUnloaded(file') = AnyUnloaded(file)
       /\ Cardinality(AnyUnloaded(file')) <= 1]_vars

\* a teardown that began with a write in flight has appended its terminal
\* line after the Hello line
C5_Witness ==
    /\ ex_pc = "kfree"
    /\ Len(file) >= 2
    /\ file[Len(file)] = UnloadedLine
    /\ HelloAt(Len(file) - 1)
    /\ lastWrite.ret = 0

EmittedValues ==
    {file[i].n : i \in {k \in 1 .. Len(file) : HelloAt(k)}}
        \cup {worklist[i].message.n : i \in 1 .. Len(worklist)}
        \cup {w.message.n : w \in Running}
        \cup (IF cb_pc \in {"check_submit", "queue_work"}
              THEN {cb_counter} ELSE {})

\* C7: no message carries the counter value 0, and a fire whose increment
\* wrapped to 0 stores 1 in the counter.
C7_ZeroNeverEmitted ==
    /\ [](0 \notin EmittedValues)
    /\ [][(PrepareDone /\ cb_counter = 0) =>
             (cb_counter' = 1 /\ (alloc = "live" => write_counter' = 1))]_vars

\* the fire whose increment wrapped has formatted 1 and stored 1
C7_Witness ==
    /\ alloc = "live"
    /\ cb_pc = "check_submit"
    /\ cb_id = CounterMod
    /\ cb_counter = 1
    /\ write_counter = 1

C9_ExactlyOnceRelease ==
    /\ badfree = {}
    /\ (ex_pc = "done" /\ cb_pc = "idle" /\ worklist = <<>> /\ WorkersIdle)
          => live = {}

\* C10: a fire that has passed the active check never returns without
\* going through the reschedule label, whichever step failed; there it
\* goes on to mod_timer whenever module_active is true and timer_period > 0,
\* and mod_timer leaves the timer pending.
C10_FailedCycleStillRearms ==
    [][/\ (cb_pc \in {"increment", "prepare", "check_submit", "queue_work"})
             => cb_pc' # "idle"
       /\ (cb_pc = "reschedule" /\ cb_pc' # "reschedule" /\ alloc = "live"
                /\ module_active /\ timer_period > 0)
             => cb_pc' = "mod_timer"
       /\ ModTimerCalled => timer' = "pending"]_vars

\* the first cycle failed before anything was submitted or written, and the
\* timer is armed again
C10_Witness ==
    /\ nfires = 1
    /\ faults = 1
    /\ cb_pc = "idle"
    /\ timer = "pending"
    /\ module_active
    /\ worklist = <<>>
    /\ WorkersIdle
    /\ file = <<>>
    /\ lastWrite = NoWrite
    /\ live = {}

\* C11: work items are executed in the order the timer callback submitted
\* them (an item that starts is the oldest one pending), at most one work
\* item is executing at any time, and at most one run of the timer callback
\* is in progress, so Hello lines reach the file in the order of their fires.
C11_WritesInSubmissionOrder ==
    /\ [](Cardinality(Running) <= 1)
    /\ [][\A c \in CPUs :
             (worker[c] = Idle /\ worker'[c] # Idle) =>
                 worker'[c] = Head(worklist)]_vars
    /\ [](timer = "pending" => cb_pc = "idle")

\* C12: module_active changes only from false to true, in test_module_init
\* after the queue exists and before the timer is first armed, and from true
\* to false, as the first step of test_module_exit that changes anything;
\* once teardown has cleared it, it is never true again; teardown proceeds
\* in program order: deactivate, cancel the timer, flush and destroy the
\* queue, final write, free.
C12_ActiveFlagLifecycle ==
    /\ [][(module_active' # module_active) =>
             \/ /\ ~module_active
                /\ lifecycle = "init_activate" /\ lifecycle' = "init_arm"
                /\ wq = "wq" /\ wqStatus = "alive" /\ alloc = "live"
                /\ timer = "inactive" /\ nfires = 0
             \/ /\ module_active
                /\ ex_pc = "deactivate" /\ ex_pc' = "timer_pending"
                /\ wq = "wq" /\ wqStatus = "alive" /\ alloc = "live"
                /\ AnyUnloaded(file) = {}]_vars
    /\ [](Deactivated => ~module_active)
    /\ [](timer = "pending" => lifecycle \in {"loaded", "removed"})
    /\ [][(ex_pc' # ex_pc) => ExitRank(ex_pc') > ExitRank(ex_pc)]_vars
    /\ [](wqStatus \in {"destroying", "destroyed"} => AfterFlush)
    /\ [](AnyUnloaded(file) # {} => wqStatus = "destroyed")
    /\ []((alloc = "freed" /\ ex_pc # "idle") => FinalWriteReturned)

\* a complete teardown of an instance whose timer has fired
C12_Witness ==
    /\ ex_pc = "done"
    /\ nfires >= 1
    /\ ~module_active
    /\ alloc = "freed"
    /\ wqStatus = "destroyed"
    /\ file # <<>>
    /\ file[Len(file)] = UnloadedLine

\* the parameter values the load-time validation is meant to reject
InvalidFilename ==
    filename = NULL \/ filename = 0 \/ filename > PATH_MAX - 1
InvalidPeriod == timer_period < 1 \/ timer_period > 3600

\* a step of test_module_init from its entry
InitCalled == lifecycle = "unloaded" /\ exit_calls' = exit_calls

\* C13: test_module_init called with a filename that is null, empty or
\* longer than PATH_MAX - 1, or with timer_period outside [1, 3600], returns
\* -EINVAL and leaves the module state, the queue, the timer and the file
\* as they were; called with both values valid it never returns -EINVAL.
C13_ValidationBeforeAllocation ==
    /\ [][(InitCalled /\ (InvalidFilename \/ InvalidPeriod)) =>
             /\ init_ret' = -EINVAL
             /\ lifecycle' = "unloaded"
             /\ UNCHANGED <<stateVars, timer, queueVars, heapVars, fileVars>>]_vars
    /\ []((lifecycle = "unloaded" /\ (InvalidFilename \/ InvalidPeriod)) =>
             /\ module_state = "NULL" /\ alloc = "none"
             /\ wq = "NULL" /\ wqStatus = "none"
             /\ timer = "inactive" /\ file = <<>>)
    /\ [][(InitCalled /\ ~InvalidFilename /\ ~InvalidPeriod) =>
             init_ret' # -EINVAL]_vars

\* a load with a path one character too long has been refused
C13_Witness ==
    /\ lifecycle = "unloaded"
    /\ init_ret = -EINVAL
    /\ filename = PATH_MAX
    /\ timer_period = MAX_PERIOD
    /\ alloc = "none"

\* C14: after test_module_init has returned an error, the global
\* module_state pointer is null, no state memory is allocated, the timer is
\* not armed and no queue exists.
C14_NoStateAfterFailedLoad ==
    (lifecycle = "unloaded" /\ init_ret # 0) =>
        /\ module_state = "NULL"
        /\ alloc # "live"
        /\ timer = "inactive"
        /\ wq = "NULL" /\ wqStatus = "none"

\* a step that enters test_module_exit
ExitCalled == exit_calls' = exit_calls + 1

\* C15: test_module_exit invoked while module_state is null (never loaded,
\* or after a completed teardown) changes nothing: the timer, the queue,
\* the heap, the file and the module state are as before.
C15_ExitWithoutStateIsNoOp ==
    [][(ExitCalled /\ module_state = "NULL") =>
          /\ UNCHANGED <<stateVars, timer, nfires, cbVars, queueVars>>
          /\ UNCHANGED <<heapVars, fileVars, ex_pc, envVars, init_ret>>]_vars

\* test_module_exit has been invoked a second time, after a teardown that
\* wrote its terminal line; the line is there once
C15_Witness ==
    /\ exit_calls = 2
    /\ ex_pc = "done"
    /\ module_state = "NULL"
    /\ alloc = "freed"
    /\ Cardinality(AnyUnloaded(file)) = 1
    /\ badfree = {}

\* teardown has freed the state and cleared the reference
Destroyed == ex_pc = "done" /\ alloc = "freed" /\ module_state = "NULL"

\* C16: once test_module_exit has started on an existing state, it
\* eventually frees the state and clears module_state, under fair scheduling
\* of the callback, the workers and the exiting process, whatever the
\* outcome of the final write and whatever work was pending.
C16_TeardownCompletes == (ex_pc = "deactivate") ~> Destroyed

\* teardown has completed although its final write failed and an item
\* was still to be written when it started
C16_Witness ==
    /\ Destroyed
    /\ lifecycle = "removed"
    /\ lastWrite.ret # 0
    /\ AnyUnloaded(file) = {}
    /\ \E i \in 1 .. Len(file) : HelloAt(i)

\* a step in which write_to_file has been called and has returned
WriteToFileCalled == <<file, lastWrite>>' # <<file, lastWrite>>

\* the path arguments write_to_file is meant to reject
InvalidPath(path) == path = NULL \/ path = 0 \/ path > PATH_MAX - 1

\* the call had no effect on the file
ZeroEffect ==
    file' = file /\ lastWrite'.opened = 0 /\ lastWrite'.writes = 0

\* C17 as stated: write_to_file returns -EINVAL for a null message and for a
\* null, empty or over-length path, and for a non-null empty message it
\* returns 0 with no effect, whatever the path.
C17_EmptyMessageNoOpForEveryPath ==
    [][WriteToFileCalled =>
          /\ lastWrite'.message = NoMessage => lastWrite'.ret = -EINVAL
          /\ lastWrite'.message = EmptyMessage =>
                (lastWrite'.ret = 0 /\ ZeroEffect)
          /\ (lastWrite'.message \notin {NoMessage, EmptyMessage}
                 /\ InvalidPath(lastWrite'.filepath)) =>
                lastWrite'.ret = -EINVAL]_vars

\* C17 amended: write_to_file returns -EINVAL with no effect for a null
\* message and, whatever the non-null message, for a null, empty or
\* over-length path; for a non-null empty message and a valid path it
\* returns 0 with no effect.
C17_PathCheckedBeforeEmptyMessage ==
    [][WriteToFileCalled =>
          /\ lastWrite'.message = NoMessage =>
                (lastWrite'.ret = -EINVAL /\ ZeroEffect)
          /\ (lastWrite'.message # NoMessage
                 /\ InvalidPath(lastWrite'.filepath)) =>
                (lastWrite'.ret = -EINVAL /\ ZeroEffect)
          /\ (lastWrite'.message = EmptyMessage
                 /\ ~InvalidPath(lastWrite'.filepath)) =>
                (lastWrite'.ret = 0 /\ ZeroEffect)]_vars

\* an empty message with the longest valid path has been skipped with
\* success, the line written before it untouched
C17_Witness ==
    /\ lastWrite.message = EmptyMessage
    /\ lastWrite.filepath = PATH_MAX - 1
    /\ lastWrite.ret = 0
    /\ file = <<UnloadedLine>>

\* the call wrote fewer bytes than the message has
ShortWritten ==
    /\ Len(file') = Len(file) + 1
    /\ ~file'[Len(file')].full

\* C18: a call of write_to_file that opens the file closes it exactly once
\* before returning, on success, on write error and on short write; a call
\* attempts at most one write, none without an open file, and a short write
\* returns an error.
C18_HandleClosedOneWriteAttempt ==
    [][WriteToFileCalled =>
          /\ lastWrite'.opened \in {0, 1}
          /\ lastWrite'.closed = lastWrite'.opened
          /\ lastWrite'.writes <= lastWrite'.opened
          /\ file' # file => lastWrite'.writes = 1
          /\ Len(file') <= Len(file) + 1
          /\ ShortWritten => lastWrite'.ret < 0
          /\ lastWrite'.ret = 0 =>
                (file' = file \/ file' = Append(file, lastWrite'.message))]_vars

\* a short write has been reported as an error, the handle closed
C18_Witness ==
    /\ lastWrite.message = HelloLine(1)
    /\ lastWrite.ret = -EIO
    /\ lastWrite.opened = 1
    /\ lastWrite.closed = 1
    /\ lastWrite.writes = 1
    /\ file = <<[HelloLine(1) EXCEPT !.full = FALSE]>>

\* the timer is neither pending nor running its callback
ChainEnded ==
    /\ lifecycle \in {"loaded", "removed"}
    /\ timer = "inactive"
    /\ cb_pc = "idle"

\* the rearm step of the callback (line 233) is taken
RearmChecked == cb_pc = "reschedule" /\ cb_pc' # "reschedule"

\* C19: a fire that reads timer_period as 0 at its rearm step while
\* module_active is true returns without arming the timer, and from then on
\* the timer is never pending and no callback runs, whatever is written to
\* timer_period afterwards; conversely, from the first arming on and while
\* module_active is true, the timer stays pending or its callback stays in
\* execution across every step other than a rearm step that reads 0.
C19_ZeroPeriodEndsChain ==
    /\ [][(RearmChecked /\ alloc = "live" /\ module_active
              /\ timer_period = 0) =>
             (cb_pc' = "idle" /\ timer' = "inactive")]_vars
    /\ [][ChainEnded => ChainEnded']_vars
    /\ [][lifecycle = "init_arm" => timer' = "pending"]_vars
    /\ [][(lifecycle = "loaded" /\ alloc = "live" /\ module_active
              /\ (timer = "pending" \/ cb_pc # "idle")
              /\ ~(RearmChecked /\ timer_period = 0)) =>
             (timer' = "pending" \/ cb_pc' # "idle")]_vars

\* the chain of an active instance has ended on a zero period and the
\* period has been set back to a valid value
C19_Witness ==
    /\ ChainEnded
    /\ lifecycle = "loaded"
    /\ ex_pc = "idle"
    /\ module_active
    /\ nfires = 1
    /\ faults = 0
    /\ reconfigs = 2
    /\ timer_period = MIN_PERIOD

\* the armed delay is timer_period seconds
DelayIsPeriod ==
    /\ ~expires'.forever
    /\ (expires'.ticks * MsPerTick) % 1000 = 0
    /\ (expires'.ticks * MsPerTick) \div 1000 = timer_period

\* C20: every arming of the timer (in init and at each rearm) with a nonzero
\* timer_period sets the expiry timer_period * 1000 ms after the current
\* time, and no step other than an arming changes the expiry of a pending
\* timer, a write to timer_period included.
C20_DelayIsFreshPeriod ==
    /\ [][((ModTimerCalled \/ lifecycle = "init_arm") /\ timer_period # 0)
             => DelayIsPeriod]_vars
    /\ [][(timer = "pending" /\ timer' = "pending") =>
             expires' = expires]_vars

====
